---------------------------- MODULE Spec2Model ----------------------------
(***************************************************************************)
(* A model of simp-lee/pagination: the Paginator (paginator.go) and the    *)
(* Pagination result with its helper methods.                              *)
(*                                                                         *)
(* One Paginator is constructed (Init = NewPaginator with any combination  *)
(* of options) and then Paginate is called on it again and again.  A call  *)
(* is cut at the two places where control leaves the package: the call of  *)
(* itemTotalCallback and the call of sliceCallback.  What the callbacks    *)
(* return is chosen by the environment.                                    *)
(*                                                                         *)
(* Go's int and int64 are 64 bits wide and float64 represents every        *)
(* integer of magnitude below 2^53 exactly; all values of the model stay   *)
(* far below that, so math.Ceil(float64(a) / float64(b)) is the exact      *)
(* ceiling of the quotient here.                                           *)
(***************************************************************************)
EXTENDS Integers, Sequences, FiniteSets

(***************************************************************************)
(* Bounds of the model.                                                    *)
(***************************************************************************)
MaxPerPage == 3     \* WithItemsPerPage(n), n in 1..MaxPerPage
MaxRange   == 4     \* WithPagesInRange(n), n in 1..MaxRange
MaxTotal   == 12    \* the count provider returns -MaxTotal..MaxTotal
MaxPage    == 11    \* Paginate is called with a page in -1..MaxPage

(***************************************************************************)
(* Program constants.                                                      *)
(***************************************************************************)
DefaultItemsPerPage == 10
DefaultPagesInRange == 5
ExampleTotal        == 100

NoErr                == "nil"
ErrInvalidPageNumber == "page number must be greater than 0"
ErrCallbackNotFound  == "callback function not found"
\* Errors a provider may raise: any error value, of which two are kept apart.
ProviderErrors       == {"provider error A", "provider error B"}

\* A nil pointer (*int, *Pagination) is the empty sequence, a set one <<v>>.
Nil == << >>
Ptr(v) == <<v>>

ItemsPerPageValues == (1..MaxPerPage) \cup {DefaultItemsPerPage}
PagesInRangeValues == (1..MaxRange) \cup {DefaultPagesInRange}
TotalValues        == ((0 - MaxTotal)..MaxTotal) \cup {ExampleTotal}
PageValues         == (0 - 1)..MaxPage

VARIABLES
    itemsPerPage,       \* Paginator.itemsPerPage
    pagesInRange,       \* Paginator.pagesInRange
    itemTotalCallback,  \* Paginator.itemTotalCallback # nil
    sliceCallback,      \* Paginator.sliceCallback # nil
    pc,                 \* where the current Paginate call stands
    requested,          \* the currentPage argument as the caller passed it
    currentPage,        \* Paginate's currentPage (reassigned by the clamp)
    total,              \* value returned by itemTotalCallback
    totalErr,           \* error returned by itemTotalCallback
    numberOfPages,      \* Paginate's numberOfPages
    offset,             \* Paginate's offset
    sliceErr,           \* error returned by sliceCallback
    calls,              \* the provider invocations of this call, in order
    result,             \* the *Pagination Paginate returned
    err                 \* the error Paginate returned

vars == <<itemsPerPage, pagesInRange, itemTotalCallback, sliceCallback, pc,
          requested, currentPage, total, totalErr, numberOfPages, offset,
          sliceErr, calls, result, err>>

config == <<itemsPerPage, pagesInRange, itemTotalCallback, sliceCallback>>

----------------------------------------------------------------------------
(***************************************************************************)
(* Pure parts of Paginate.                                                 *)
(***************************************************************************)

\* math.Ceil(float64(a) / float64(b)) converted to int, for b >= 1.
CeilDiv(a, b) == 0 - ((0 - a) \div b)

\* Validate with page 0 let through (page < 0 for page <= 0).
Validate_ZeroAccepted(hasTotal, hasSlice, page) ==
    IF ~hasTotal \/ ~hasSlice THEN ErrCallbackNotFound
    ELSE IF page < 0 THEN ErrInvalidPageNumber
    ELSE NoErr

\* Validate failing only when both providers are missing (&& for ||).
Validate_BothMissing(hasTotal, hasSlice, page) ==
    IF ~hasTotal /\ ~hasSlice THEN ErrCallbackNotFound
    ELSE IF page <= 0 THEN ErrInvalidPageNumber
    ELSE NoErr

\* paginator.go:78-83: the two checks before any provider is called.
Validate(hasTotal, hasSlice, page) ==
    IF ~hasTotal \/ ~hasSlice THEN ErrCallbackNotFound
    ELSE IF page <= 0 THEN ErrInvalidPageNumber
    ELSE NoErr

\* TotalFailed with the check left out.
TotalFailed_Unchecked(e) == FALSE

\* paginator.go:87: if err != nil, after itemTotalCallback
TotalFailed(e) == e # NoErr

\* paginator.go:105: if err != nil, after sliceCallback
SliceFailed(e) == e # NoErr

\* NumberOfPages with the quotient truncated instead of rounded up.
NumberOfPages_Truncated(t, perPage) ==
    LET n == t \div perPage
    IN  IF n = 0 THEN 1 ELSE n

\* ClampPage without the clamp.
ClampPage_None(page, pages) == page

\* Offset of a 0-based page.
Offset_ZeroBased(page, perPage) == page * perPage

\* paginator.go:92-95
NumberOfPages(t, perPage) ==
    LET n == CeilDiv(t, perPage)
    IN  IF n = 0 THEN 1 ELSE n

\* paginator.go:98-100
ClampPage(page, pages) == IF page > pages THEN pages ELSE page

\* paginator.go:103
Offset(page, perPage) == (page - 1) * perPage

\* paginator.go:163-173
generateSequence(start, end) ==
    IF start > end THEN << >>
    ELSE [i \in 1..(end - start + 1) |-> start + (i - 1)]

\* calculatePageRange without the clamp of end to totalPages.
calculatePageRange_NoEndClamp(page, totalPages, inRange) ==
    IF totalPages <= inRange THEN generateSequence(1, totalPages)
    ELSE
        LET half   == inRange \div 2
            start0 == page - half
            end0   == page + half
            start1 == IF start0 < 1 THEN 1 ELSE start0
            end1   == IF start0 < 1 THEN inRange ELSE end0
        IN  generateSequence(start1, end1)

\* paginator.go:140-160
calculatePageRange(page, totalPages, inRange) ==
    IF totalPages <= inRange THEN generateSequence(1, totalPages)
    ELSE
        LET half   == inRange \div 2
            start0 == page - half
            end0   == page + half
            start1 == IF start0 < 1 THEN 1 ELSE start0
            end1   == IF start0 < 1 THEN inRange ELSE end0
            end2   == IF end1 > totalPages THEN totalPages ELSE end1
            start2 == IF end1 > totalPages THEN totalPages - inRange + 1 ELSE start1
        IN  generateSequence(start2, end2)

\* paginator.go:127-130
PreviousPage(page) == IF page > 1 THEN Ptr(page - 1) ELSE Nil

\* NextPage with <= for <.
NextPage_OffByOne(page, pages) == IF page <= pages THEN Ptr(page + 1) ELSE Nil

\* paginator.go:131-134
NextPage(page, pages) == IF page < pages THEN Ptr(page + 1) ELSE Nil

\* paginator.go:113-136: the Pagination built once pages is known to be
\* non-empty (pages[0] and pages[len(pages)-1] are read).
BuildPagination(items, pages, pageCount, page, perPage, t) ==
    [ Items            |-> items,
      Pages            |-> pages,
      TotalPages       |-> pageCount,
      CurrentPage      |-> page,
      FirstPage        |-> 1,
      LastPage         |-> pageCount,
      PreviousPage     |-> PreviousPage(page),
      NextPage         |-> NextPage(page, pageCount),
      ItemsPerPage     |-> perPage,
      TotalItems       |-> t,
      FirstPageInRange |-> pages[1],
      LastPageInRange  |-> pages[Len(pages)] ]

(***************************************************************************)
(* The helper methods of Pagination.                                       *)
(***************************************************************************)
HasPreviousPage(p) == p.PreviousPage # Nil
HasNextPage(p)     == p.NextPage # Nil
IsFirstPage(p)     == p.CurrentPage = p.FirstPage
IsLastPage(p)      == p.CurrentPage = p.LastPage

----------------------------------------------------------------------------
(***************************************************************************)
(* The state machine.                                                      *)
(***************************************************************************)

TotalCall == [fn |-> "itemTotalCallback", offset |-> 0, limit |-> 0]
SliceCall(off, lim) == [fn |-> "sliceCallback", offset |-> off, limit |-> lim]

\* No call is in progress: the locals hold nothing.
Idle ==
    /\ pc = "idle"
    /\ requested = 0 /\ currentPage = 0 /\ total = 0 /\ numberOfPages = 0
    /\ offset = 0 /\ totalErr = NoErr /\ sliceErr = NoErr
    /\ calls = << >> /\ result = Nil /\ err = NoErr

\* NewPaginator: the defaults, overwritten by whichever options are given.
\* WithItemsPerPage and WithPagesInRange panic on n <= 0, so no Paginator
\* with such a field exists.
Init ==
    /\ itemsPerPage \in ItemsPerPageValues
    /\ pagesInRange \in PagesInRangeValues
    /\ itemTotalCallback \in BOOLEAN
    /\ sliceCallback \in BOOLEAN
    /\ Idle

\* Paginate is entered: validation, then the call of itemTotalCallback.
Paginate(page) ==
    /\ pc = "idle"
    /\ requested' = page
    /\ currentPage' = page
    /\ LET e == Validate(itemTotalCallback, sliceCallback, page)
       IN  IF e # NoErr
           THEN /\ pc' = "returned"
                /\ err' = e
                /\ calls' = calls
           ELSE /\ pc' = "inTotal"
                /\ err' = NoErr
                /\ calls' = Append(calls, TotalCall)
    /\ UNCHANGED <<config, total, totalErr, numberOfPages, offset, sliceErr, result>>

\* itemTotalCallback returns (t, e); Paginate runs on to the call of
\* sliceCallback.
ItemTotalReturns(t, e) ==
    /\ pc = "inTotal"
    /\ total' = t
    /\ totalErr' = e
    /\ IF TotalFailed(e)
       THEN /\ pc' = "returned"
            /\ err' = e
            /\ UNCHANGED <<currentPage, numberOfPages, offset, calls>>
       ELSE /\ numberOfPages' = NumberOfPages(t, itemsPerPage)
            /\ currentPage' = ClampPage(currentPage, numberOfPages')
            /\ offset' = Offset(currentPage', itemsPerPage)
            /\ calls' = Append(calls, SliceCall(offset', itemsPerPage))
            /\ pc' = "inSlice"
            /\ err' = NoErr
    /\ UNCHANGED <<config, requested, sliceErr, result>>

\* sliceCallback returns (items, e); Paginate runs to its end.
SliceReturns(e) ==
    /\ pc = "inSlice"
    /\ sliceErr' = e
    /\ IF SliceFailed(e)
       THEN /\ pc' = "returned"
            /\ err' = e
            /\ result' = Nil
       ELSE LET pages == calculatePageRange(currentPage, numberOfPages, pagesInRange)
            IN  IF pages = << >>
                THEN \* pages[0]: index out of range, a run-time panic
                     /\ pc' = "panicked"
                     /\ UNCHANGED <<err, result>>
                ELSE /\ pc' = "returned"
                     /\ err' = NoErr
                     /\ result' = Ptr(BuildPagination("items", pages, numberOfPages,
                                                     currentPage, itemsPerPage, total))
    /\ UNCHANGED <<config, requested, currentPage, total, totalErr, numberOfPages,
                   offset, calls>>

\* The caller has the outcome; the Paginator is ready for the next call.
Done ==
    /\ pc = "returned"
    /\ pc' = "idle"
    /\ requested' = 0 /\ currentPage' = 0 /\ total' = 0 /\ numberOfPages' = 0
    /\ offset' = 0 /\ totalErr' = NoErr /\ sliceErr' = NoErr
    /\ calls' = << >> /\ result' = Nil /\ err' = NoErr
    /\ UNCHANGED config

Next ==
    \/ \E page \in PageValues : Paginate(page)
    \/ \E t \in TotalValues : ItemTotalReturns(t, NoErr)
    \/ \E e \in ProviderErrors : ItemTotalReturns(0, e)
    \/ SliceReturns(NoErr)
    \/ \E e \in ProviderErrors : SliceReturns(e)
    \/ Done

Spec == Init /\ [][Next]_vars

----------------------------------------------------------------------------
(***************************************************************************)
(* Properties.                                                             *)
(***************************************************************************)

Min(a, b) == IF a <= b THEN a ELSE b
Max(a, b) == IF a >= b THEN a ELSE b

\* Paginate returned a Pagination and no error.
Success == pc = "returned" /\ err = NoErr /\ result # Nil

\* The Pagination of a successful call.
R == result[1]

\* The ceiling of t / d for t >= 0 and d >= 1, by its definition: the least
\* n with n * d >= t.
CeilOf(t, d) == CHOOSE n \in 0..t : n * d >= t /\ (n = 0 \/ (n - 1) * d < t)

SliceCalls == {i \in 1..Len(calls) : calls[i].fn = "sliceCallback"}
TotalCalls == {i \in 1..Len(calls) : calls[i].fn = "itemTotalCallback"}

\* C1: the Pages list of a successful result has exactly
\* min(pagesInRange, TotalPages) elements, for odd and even pagesInRange.
C1_PagesLength ==
    Success => Len(R.Pages) = Min(pagesInRange, R.TotalPages)

\* C2: for totalItems >= 0 a successful result has
\* TotalPages = max(1, ceil(totalItems / itemsPerPage)), LastPage = TotalPages
\* and FirstPage = 1; with totalItems = 0, TotalPages = 1, CurrentPage = 1
\* and Pages = [1].
C2_TotalPages ==
    (pc = "returned" /\ err = NoErr /\ total >= 0) =>
        /\ result # Nil
        /\ R.TotalItems = total
        /\ R.ItemsPerPage = itemsPerPage
        /\ R.TotalPages = Max(1, CeilOf(total, itemsPerPage))
        /\ R.LastPage = R.TotalPages
        /\ R.FirstPage = 1
        /\ (total = 0 =>
               R.TotalPages = 1 /\ R.CurrentPage = 1 /\ R.Pages = <<1>>)

\* C2 happens: a count that is not a multiple of the page size.
C2_Witness ==
    /\ Success
    /\ total > itemsPerPage
    /\ total % itemsPerPage # 0
    /\ R.TotalPages * itemsPerPage > total

\* C3: for requestedPage >= 1 and totalItems >= 0 the CurrentPage of a
\* successful result is min(requestedPage, TotalPages), so that
\* 1 <= CurrentPage <= TotalPages.
C3_CurrentPageClamped ==
    (Success /\ total >= 0) =>
        /\ requested >= 1
        /\ R.CurrentPage = Min(requested, R.TotalPages)
        /\ 1 <= R.CurrentPage /\ R.CurrentPage <= R.TotalPages

\* C3 happens: a request beyond the last page.
C3_Witness ==
    /\ Success
    /\ total > 0
    /\ requested > R.TotalPages
    /\ R.CurrentPage = R.TotalPages

\* C4: in a successful result Pages is a contiguous ascending run within
\* [1, TotalPages], holds CurrentPage, and FirstPageInRange / LastPageInRange
\* are its first / last element; 100 items, 10 per page, range 5 give
\* [1,2,3,4,5] on page 1 and [6,7,8,9,10] on page 10.
C4_PagesWindow ==
    (Success /\ total >= 0) =>
        /\ Len(R.Pages) >= 1
        /\ \A i \in 2..Len(R.Pages) : R.Pages[i] = R.Pages[i - 1] + 1
        /\ \A i \in 1..Len(R.Pages) : 1 <= R.Pages[i] /\ R.Pages[i] <= R.TotalPages
        /\ \E i \in 1..Len(R.Pages) : R.Pages[i] = R.CurrentPage
        /\ R.FirstPageInRange = R.Pages[1]
        /\ R.LastPageInRange = R.Pages[Len(R.Pages)]
        /\ (total = 100 /\ itemsPerPage = 10 /\ pagesInRange = 5 =>
               /\ requested = 1 => R.Pages = <<1, 2, 3, 4, 5>>
               /\ requested = 10 => R.Pages = <<6, 7, 8, 9, 10>>)

\* C4 happens: the last page of the example, where the window is shifted.
C4_Witness ==
    /\ Success
    /\ total = 100 /\ itemsPerPage = 10 /\ pagesInRange = 5 /\ requested = 10
    /\ R.Pages = <<6, 7, 8, 9, 10>>
    /\ R.FirstPageInRange = 6 /\ R.LastPageInRange = 10

\* C5: PreviousPage is absent exactly when CurrentPage = 1 and is
\* CurrentPage - 1 otherwise; NextPage is absent exactly when
\* CurrentPage = TotalPages and is CurrentPage + 1 otherwise; so
\* HasPreviousPage() = not IsFirstPage() and HasNextPage() = not IsLastPage().
C5_PreviousNext ==
    Success =>
        /\ (R.PreviousPage = Nil) <=> (R.CurrentPage = 1)
        /\ R.PreviousPage # Nil => R.PreviousPage = <<R.CurrentPage - 1>>
        /\ (R.NextPage = Nil) <=> (R.CurrentPage = R.TotalPages)
        /\ R.NextPage # Nil => R.NextPage = <<R.CurrentPage + 1>>
        /\ HasPreviousPage(R) <=> ~IsFirstPage(R)
        /\ HasNextPage(R) <=> ~IsLastPage(R)

\* C5 happens: the last of several pages, with a previous and no next page.
C5_Witness ==
    /\ Success
    /\ R.TotalPages > 1
    /\ R.CurrentPage = R.TotalPages
    /\ R.NextPage = Nil
    /\ R.PreviousPage = <<R.CurrentPage - 1>>

\* C6 as stated: for every requestedPage <= 0 Paginate fails with
\* ErrInvalidPageNumber, returns no result and invokes no provider.
C6_InvalidPageAlways ==
    (pc # "idle" /\ requested <= 0) =>
        /\ pc = "returned"
        /\ err = ErrInvalidPageNumber
        /\ result = Nil
        /\ calls = << >>

\* C6 amended: with both providers configured, for every requestedPage <= 0
\* Paginate fails with ErrInvalidPageNumber, returns no result and invokes
\* no provider.
C6_InvalidPageConfigured ==
    (pc # "idle" /\ requested <= 0 /\ itemTotalCallback /\ sliceCallback) =>
        /\ pc = "returned"
        /\ err = ErrInvalidPageNumber
        /\ result = Nil
        /\ calls = << >>

\* C6 happens: page 0 on a fully configured Paginator.
C6_Witness ==
    /\ pc = "returned"
    /\ requested = 0
    /\ itemTotalCallback /\ sliceCallback
    /\ err = ErrInvalidPageNumber

\* C7: with the count provider or the slice provider not configured, Paginate
\* fails with ErrCallbackNotFound for every requested page, returns no result
\* and does not invoke the provider that is configured.
C7_MissingProvider ==
    (pc # "idle" /\ (~itemTotalCallback \/ ~sliceCallback)) =>
        /\ pc = "returned"
        /\ err = ErrCallbackNotFound
        /\ result = Nil
        /\ calls = << >>

\* C7 happens: a valid page, the count provider configured, the slice
\* provider not.
C7_Witness ==
    /\ pc = "returned"
    /\ requested >= 1
    /\ itemTotalCallback /\ ~sliceCallback
    /\ err = ErrCallbackNotFound
    /\ calls = << >>

\* C8: a failure of the count provider is returned as it is, with no result
\* and without the slice provider being invoked; a failure of the slice
\* provider is returned as it is, with no result; no provider is invoked more
\* than once in a call.
C8_ProviderFailure ==
    /\ (pc # "inTotal" /\ totalErr # NoErr) =>
           /\ pc = "returned"
           /\ err = totalErr
           /\ result = Nil
           /\ SliceCalls = {}
    /\ (pc # "inSlice" /\ sliceErr # NoErr) =>
           /\ pc = "returned"
           /\ err = sliceErr
           /\ result = Nil
    /\ Cardinality(TotalCalls) <= 1
    /\ Cardinality(SliceCalls) <= 1

\* C8 happens: the count provider failed.
C8_Witness ==
    /\ pc = "returned"
    /\ totalErr \in ProviderErrors
    /\ err = totalErr
    /\ calls = <<TotalCall>>

\* C9: once validation passed and the count provider succeeded, the slice
\* provider is invoked exactly once, after the count provider returned, with
\* limit = itemsPerPage and offset = (CurrentPage - 1) * itemsPerPage of the
\* clamped page; for totalItems >= 1, 0 <= offset < totalItems, and for
\* totalItems = 0 the offset is 0.
C9_SliceCall ==
    /\ pc = "inTotal" => calls = <<TotalCall>>
    /\ (pc \in {"inSlice", "returned", "panicked"} /\ calls # << >> /\ totalErr = NoErr) =>
           LET clamped == IF requested > numberOfPages THEN numberOfPages ELSE requested
           IN  /\ Len(calls) = 2
               /\ calls[1] = TotalCall
               /\ calls[2].fn = "sliceCallback"
               /\ calls[2].limit = itemsPerPage
               /\ calls[2].offset = (clamped - 1) * itemsPerPage
               /\ currentPage = clamped
               /\ total >= 1 => (0 <= calls[2].offset /\ calls[2].offset < total)
               /\ total = 0 => calls[2].offset = 0

\* C9 happens: a request beyond the last page, sliced at the last page.
C9_Witness ==
    /\ Success
    /\ total >= 1
    /\ requested > numberOfPages
    /\ calls = <<TotalCall, SliceCall((numberOfPages - 1) * itemsPerPage, itemsPerPage)>>
    /\ calls[2].offset > 0

\* C10: for every value the count provider returns without error, negative
\* ones included, with a succeeding slice provider, Paginate completes and
\* returns a result with TotalPages >= 1, 1 <= CurrentPage <= TotalPages, a
\* non-negative slice offset and a non-empty Pages list; it never reads an
\* element of an empty Pages list.
C10_AnyCountCompletes ==
    (pc \in {"returned", "panicked"} /\ Len(calls) = 2
        /\ totalErr = NoErr /\ sliceErr = NoErr) =>
        /\ pc = "returned"
        /\ err = NoErr
        /\ result # Nil
        /\ R.TotalPages >= 1
        /\ 1 <= R.CurrentPage /\ R.CurrentPage <= R.TotalPages
        /\ calls[2].offset >= 0
        /\ R.Pages # << >>

=============================================================================
